---- MODULE Spec2Model ----
(***************************************************************************)
(* Model of app.py: a FastAPI service that ingests a document, splits it   *)
(* into chunks, embeds them, and answers questions by cosine retrieval     *)
(* followed by a call to the Deepseek chat-completions backend.            *)
(*                                                                         *)
(* Strings are kept run-length encoded: a string is a sequence of runs     *)
(* [c |-> character, n |-> repetitions], adjacent runs having different    *)
(* characters.  Sequences are 1-based, so index i of the model is Python   *)
(* index i-1.                                                              *)
(***************************************************************************)
EXTENDS Integers, Sequences, FiniteSets, Bags, TLC

\* ------------------------------------------------------------------------
\* Bounds of the model
\* ------------------------------------------------------------------------
MaxReqs == 2        \* requests that can be in flight at the same time
MaxUploads == 1     \* uuid4 values handed out in one run
MaxVecs == 3        \* chunk vectors handed to find_relevant_chunks directly
MaxTopK == 4        \* largest top_k handed to find_relevant_chunks directly
MaxLines == 3       \* lines of a text handed to process_document directly
MaxSeqReqs == 1     \* requests in flight when requests are sent one by one
MaxSeqUploads == 2  \* uuid4 values handed out when requests are sent one by one

\* ------------------------------------------------------------------------
\* Program constants
\* ------------------------------------------------------------------------
MinParagraphLen == 5
MaxChunkLen == 500
DefaultTopK == 3

None == "<None>"
NoKey == ""

\* ------------------------------------------------------------------------
\* Strings (run-length encoded) and the str methods the program uses
\* ------------------------------------------------------------------------
Whitespace == {" ", "\n", "\t"}

R(ch, k) == <<[c |-> ch, n |-> k]>>

EmptyStr == <<>>

\* s + t
Cat(s, t) ==
  IF s = <<>> THEN t
  ELSE IF t = <<>> THEN s
  ELSE IF s[Len(s)].c = t[1].c
       THEN SubSeq(s, 1, Len(s) - 1)
            \o <<[c |-> t[1].c, n |-> s[Len(s)].n + t[1].n]>>
            \o Tail(t)
       ELSE s \o t

RECURSIVE StrLen(_)
\* len(s)
StrLen(s) == IF s = <<>> THEN 0 ELSE s[1].n + StrLen(Tail(s))

RECURSIVE LStrip(_)
LStrip(s) ==
  IF s = <<>> THEN s
  ELSE IF s[1].c \in Whitespace THEN LStrip(Tail(s)) ELSE s

RECURSIVE RStrip(_)
RStrip(s) ==
  IF s = <<>> THEN s
  ELSE IF s[Len(s)].c \in Whitespace THEN RStrip(SubSeq(s, 1, Len(s) - 1)) ELSE s

\* s.strip()
Strip(s) == RStrip(LStrip(s))

RECURSIVE SplitFrom(_, _, _)
SplitFrom(s, cur, out) ==
  IF s = <<>> THEN Append(out, cur)
  ELSE IF s[1].c = "\n"
       THEN SplitFrom(Tail(s), EmptyStr,
                      Append(out, cur) \o [i \in 1..(s[1].n - 1) |-> EmptyStr])
       ELSE SplitFrom(Tail(s), Cat(cur, <<s[1]>>), out)

\* s.split('\n')
SplitLines(s) == SplitFrom(s, EmptyStr, <<>>)

\* ch in s
HasChar(s, ch) == \E i \in 1..Len(s) : s[i].c = ch

\* ------------------------------------------------------------------------
\* embedding_model.encode
\* ------------------------------------------------------------------------
\* The sentence embedding of one text: a fixed function of the text whose
\* value is never the zero vector (the model normalises its output).
Embed(s) ==
  <<1, IF HasChar(s, "a") THEN 1 ELSE 0, IF HasChar(s, "b") THEN 1 ELSE 0>>

\* embedding_model.encode(texts): one vector per text, in order
Encode(texts) == [i \in 1..Len(texts) |-> Embed(texts[i])]

\* ------------------------------------------------------------------------
\* process_document
\* ------------------------------------------------------------------------
\* Variant: the length test is made on the line as it stands
SkippedUnstripped(paragraph) == StrLen(paragraph) < MinParagraphLen

\* if len(paragraph.strip()) < 5: continue
Skipped(paragraph) == StrLen(Strip(paragraph)) < MinParagraphLen

\* Variant: the buffer is closed as soon as the sum reaches the maximum
TooLongAtMaximum(current_chunk, paragraph) ==
  StrLen(current_chunk) + StrLen(paragraph) >= MaxChunkLen

\* if len(current_chunk) + len(paragraph) > 500
TooLong(current_chunk, paragraph) ==
  StrLen(current_chunk) + StrLen(paragraph) > MaxChunkLen

\* One iteration of the loop over paragraphs; st = [chunks, current_chunk]
ChunkStep(st, paragraph) ==
  IF Skipped(paragraph) THEN st
  ELSE IF TooLong(st.current_chunk, paragraph)
       THEN [chunks |-> IF st.current_chunk # EmptyStr
                        THEN Append(st.chunks, Strip(st.current_chunk))
                        ELSE st.chunks,
             current_chunk |-> paragraph]
       ELSE [chunks |-> st.chunks,
             current_chunk |-> IF st.current_chunk # EmptyStr
                               THEN Cat(Cat(st.current_chunk, R(" ", 1)), paragraph)
                               ELSE paragraph]

RECURSIVE ChunkLoop(_, _)
ChunkLoop(st, paragraphs) ==
  IF paragraphs = <<>> THEN st
  ELSE ChunkLoop(ChunkStep(st, Head(paragraphs)), Tail(paragraphs))

\* Variant: the buffer left after the loop is dropped
NoLastChunk(st) == st.chunks

\* if current_chunk: chunks.append(current_chunk.strip())
LastChunk(st) ==
  IF st.current_chunk # EmptyStr
  THEN Append(st.chunks, Strip(st.current_chunk))
  ELSE st.chunks

\* The chunks list built by process_document
ChunkText(text) ==
  LastChunk(ChunkLoop([chunks |-> <<>>, current_chunk |-> EmptyStr],
                      SplitLines(text)))

\* Variant: the embedder is run on the paragraphs instead of the chunks
EncodedParagraphs(text) == SplitLines(text)

\* The texts the embedder is run on: the chunks
EncodedTexts(text) == ChunkText(text)

\* process_document(text) = (chunks, chunk_embeddings)
process_document(text) ==
  [chunks |-> ChunkText(text), chunk_embeddings |-> Encode(EncodedTexts(text))]

\* ------------------------------------------------------------------------
\* find_relevant_chunks
\* ------------------------------------------------------------------------
RECURSIVE DotFrom(_, _, _)
DotFrom(v, w, i) == IF i > Len(v) THEN 0 ELSE v[i] * w[i] + DotFrom(v, w, i + 1)

\* np.dot of two vectors
Dot(v, w) == DotFrom(v, w, 1)

\* np.linalg.norm squared
NormSq(v) == Dot(v, v)

\* One entry of similarities: dot / (norm(v) * norm(q)), kept exactly as the
\* dot product and the squared norm of the chunk vector (the question norm is
\* common to all entries).  A zero denominator gives 0/0 = nan, no exception.
Similarity(v, q) ==
  [nan |-> (NormSq(v) = 0 \/ NormSq(q) = 0), dot |-> Dot(v, q), vsq |-> NormSq(v)]

Similarities(chunk_embeddings, q) ==
  [i \in 1..Len(chunk_embeddings) |-> Similarity(chunk_embeddings[i], q)]

\* a < b as floats; nan is sorted after every number
SimLess(a, b) ==
  IF a.nan THEN FALSE
  ELSE IF b.nan THEN TRUE
  ELSE IF a.dot < 0 /\ b.dot >= 0 THEN TRUE
  ELSE IF a.dot >= 0 /\ b.dot < 0 THEN FALSE
  ELSE IF a.dot >= 0 THEN a.dot * a.dot * b.vsq < b.dot * b.dot * a.vsq
  ELSE a.dot * a.dot * b.vsq > b.dot * b.dot * a.vsq

\* neither sorts before the other
SimTie(a, b) == ~SimLess(a, b) /\ ~SimLess(b, a)

\* The order np.argsort (default kind, not stable) leaves equal elements in
\* is not specified: it depends on the numpy build and on the array.
TieOrders == {"index_ascending", "index_descending"}

\* j is placed before i by np.argsort
SortsBefore(sims, j, i, ties) ==
  \/ SimLess(sims[j], sims[i])
  \/ /\ SimTie(sims[j], sims[i])
     /\ IF ties = "index_ascending" THEN j < i ELSE j > i

\* np.argsort(sims): the indices in ascending order of similarity
Argsort(sims, ties) ==
  LET n == Len(sims)
      rank(i) == 1 + Cardinality({j \in 1..n : SortsBefore(sims, j, i, ties)})
  IN [pos \in 1..n |-> CHOOSE i \in 1..n : rank(i) = pos]

\* Variant: the slice is taken at the low end of the ascending order, a[:k]
TakeFirst(a, k) == IF k >= Len(a) THEN a ELSE SubSeq(a, 1, k)

\* a[-k:]  (k >= 0; -0 is 0, so a[-0:] is the whole of a)
TakeLast(a, k) ==
  IF k = 0 \/ k >= Len(a) THEN a ELSE SubSeq(a, Len(a) - k + 1, Len(a))

\* a[::-1]
Reverse(a) == [i \in 1..Len(a) |-> a[Len(a) + 1 - i]]

\* top_indices
TopIndices(sims, top_k, ties) == Reverse(TakeLast(Argsort(sims, ties), top_k))

\* Lines 120-131 of find_relevant_chunks, given the question embedding.
\* encode([]) is a one-dimensional empty array, on which np.dot raises.
RelevantChunks(chunks, chunk_embeddings, question_embedding, top_k, ties) ==
  LET sims == Similarities(chunk_embeddings, question_embedding)
      top == TopIndices(sims, top_k, ties)
  IN IF chunk_embeddings = <<>> \/ \E i \in 1..Len(top) : top[i] > Len(chunks)
     THEN [raised |-> TRUE, top_indices |-> <<>>,
           relevant_chunks |-> <<>>, relevance_scores |-> <<>>]
     ELSE [raised |-> FALSE, top_indices |-> top,
           relevant_chunks |-> [i \in 1..Len(top) |-> chunks[top[i]]],
           relevance_scores |-> [i \in 1..Len(top) |-> sims[top[i]]]]

find_relevant_chunks(chunks, chunk_embeddings, question, top_k, ties) ==
  RelevantChunks(chunks, chunk_embeddings, Encode(<<question>>)[1], top_k, ties)

\* ------------------------------------------------------------------------
\* Inputs of the service
\* ------------------------------------------------------------------------
Newline == R("\n", 1)

TextEmpty == EmptyStr
\* "abc\n\n  " : every line shorter than the threshold
TextShortLines == Cat(Cat(R("c", 3), R("\n", 2)), R(" ", 2))
\* "ccccc\n\naaaaaaaaaaaa\nbbbbbbbbbbbb\n" : title, blank line, two paragraphs
TextScenario ==
  Cat(Cat(Cat(Cat(Cat(R("c", 5), R("\n", 2)), R("a", 12)), Newline), R("b", 12)), Newline)
\* four lines of 300 characters
TextLong ==
  Cat(Cat(Cat(Cat(Cat(Cat(R("a", 300), Newline), R("b", 300)), Newline),
              R("a", 300)), Newline), R("c", 300))

\* Uploaded files: extension of the file name, content as extract_text would
\* read it, and whether the parser of the format rejects the content.
UploadedFiles ==
  { [ext |-> ".txt", text |-> TextShortLines, corrupt |-> FALSE],
    [ext |-> ".md", text |-> TextLong, corrupt |-> FALSE],
    [ext |-> ".pdf", text |-> TextEmpty, corrupt |-> TRUE],
    [ext |-> ".zip", text |-> TextScenario, corrupt |-> FALSE] }

QuestionTexts == { Cat(R("a", 4), R("?", 1)) }

EnvKeys == {NoKey, "B"}          \* DEEPSEEK_API_KEY of the environment
RequestKeys == {None, "A"}       \* api_key of the body of a question request
SettingsKeys == {NoKey, "C"}     \* deepseek_api_key of a settings body

DocIds == 1..MaxUploads

\* What the backend does with one POST
BackendBehaviours ==
  { [exc |-> None, status_code |-> 200, text |-> "json", content |-> "respuesta"],
    [exc |-> None, status_code |-> 500, text |-> "server error", content |-> None],
    [exc |-> "ConnectionError", status_code |-> 0, text |-> "", content |-> None] }

\* ------------------------------------------------------------------------
\* State
\* ------------------------------------------------------------------------
VARIABLES
  DEEPSEEK_API_KEY,     \* the process-wide default credential
  documents,            \* document_id -> [filename, path, text, chunks]
  document_embeddings,  \* document_id -> chunk_embeddings
  uploads,              \* the files of the uploads/ directory
  next_uuid,            \* the next value uuid.uuid4() returns
  env_key,              \* DEEPSEEK_API_KEY of the environment at start-up
  last_settings,        \* credential of the last effective settings request
  tasks,                \* bag of the requests in flight, each a record
                        \*   pc: position of its handler
                        \*   request: the body received
                        \*   locals: the local variables of the handler
                        \*   response: the HTTP response
                        \*   backend_calls: Authorization of each POST issued
  fr_in,                \* arguments of a direct call of find_relevant_chunks
  fr_out,               \* results of the direct calls
  ch_in,                \* text of a direct call of process_document
  ch_out,               \* results of the direct calls
  qd_in,                \* credential and backend of a direct call of query_deepseek
  qd_out                \* results of the direct calls

storeVars == <<documents, document_embeddings, uploads, next_uuid>>
keyVars == <<DEEPSEEK_API_KEY, env_key, last_settings>>
callVars == <<fr_in, fr_out, ch_in, ch_out, qd_in, qd_out>>
vars == <<DEEPSEEK_API_KEY, documents, document_embeddings, uploads, next_uuid,
          env_key, last_settings, tasks, fr_in, fr_out, ch_in, ch_out,
          qd_in, qd_out>>

NoFile == [ext |-> "", text |-> EmptyStr, corrupt |-> FALSE]

NoRequest ==
  [kind |-> None, question |-> EmptyStr, document_id |-> 0, api_key |-> None,
   deepseek_api_key |-> None, file |-> NoFile]

NoPath == <<0, "">>

NoAnswer == [raised |-> FALSE, kind |-> None, status_code |-> 0, text |-> ""]

NoLocals ==
  [document_id |-> 0, file_path |-> NoPath, document_text |-> EmptyStr,
   chunks |-> <<>>, chunk_embeddings |-> <<>>, relevant_chunks |-> <<>>,
   api_key |-> None, original_api_key |-> None, answer |-> NoAnswer]

NoResponse == [status |-> 0, document_id |-> 0, answer |-> NoAnswer, detail |-> None]

NoQuery ==
  [key |-> NoKey,
   backend |-> [exc |-> None, status_code |-> 200, text |-> "json", content |-> "respuesta"]]

NoCall == [chunks |-> <<>>, chunk_embeddings |-> <<>>, question_embedding |-> <<>>,
           top_k |-> DefaultTopK, ties |-> "index_ascending"]

ServiceInit ==
  /\ documents = <<>>
  /\ document_embeddings = <<>>
  /\ uploads = {}
  /\ next_uuid = 1
  /\ last_settings = None
  /\ tasks = EmptyBag

Init ==
  /\ ServiceInit
  /\ env_key \in EnvKeys
  /\ DEEPSEEK_API_KEY = env_key
  /\ fr_in = NoCall
  /\ fr_out = <<>>
  /\ ch_in = EmptyStr
  /\ ch_out = <<>>
  /\ qd_in = NoQuery
  /\ qd_out = <<>>

\* The requests in flight
Tasks == BagToSet(tasks)

\* ------------------------------------------------------------------------
\* The event loop
\* ------------------------------------------------------------------------
\* Variant: the upload handler awaits between its two writes to the store
HandlerPcsWithAwait ==
  {"u_process", "u_store_doc", "u_except", "q_retrieve", "q_query", "q_blocked",
   "q_restore"}

\* Positions inside a handler
HandlerPcs == {"u_process", "u_store_doc", "u_store_emb", "u_except",
               "q_retrieve", "q_query", "q_blocked", "q_restore"}

\* Variant: handlers run on worker threads and interleave freely
ScheduledOnThreads(t) == TRUE

\* Every handler is an `async def` that never awaits: once the event loop has
\* started it, no other handler runs until it has returned.
Scheduled(t) == \A u \in Tasks : u.pc \in HandlerPcs => u = t

\* ------------------------------------------------------------------------
\* Arrival and departure of requests
\* ------------------------------------------------------------------------
NewTask(req) ==
  [pc |-> "pending", request |-> req, locals |-> NoLocals,
   response |-> NoResponse, backend_calls |-> <<>>]

ArriveWithin(req, max_reqs) ==
  /\ BagCardinality(tasks) < max_reqs
  /\ tasks' = tasks (+) SetToBag({NewTask(req)})

Arrive(req) == ArriveWithin(req, MaxReqs)

\* Task t becomes task u
Becomes(t, u) == tasks' = (tasks (-) SetToBag({t})) (+) SetToBag({u})

PendingUploads ==
  [t \in {u \in Tasks : u.pc = "pending" /\ u.request.kind = "upload"} |-> tasks[t]]

ReceiveUploadWithin(f, max_reqs, max_uploads) ==
  /\ next_uuid + BagCardinality(PendingUploads) <= max_uploads
  /\ ArriveWithin([NoRequest EXCEPT !.kind = "upload", !.file = f], max_reqs)
  /\ UNCHANGED <<storeVars, keyVars, callVars>>

ReceiveUpload(f) == ReceiveUploadWithin(f, MaxReqs, MaxUploads)

\* The body of a question request as the client sends it
QuestionBody(q, d, k) ==
  [question |-> q, document_id |-> d, api_key |-> k]

\* Question(BaseModel) declares question and document_id only; pydantic drops
\* every other key of the body.
ParseQuestion(body) ==
  [question |-> body.question, document_id |-> body.document_id]

\* getattr(question_data, 'api_key', None)
GetApiKey(question_data) ==
  IF "api_key" \in DOMAIN question_data THEN question_data.api_key ELSE None

ReceiveQuestionWithin(q, d, k, max_reqs) ==
  /\ ArriveWithin([NoRequest EXCEPT !.kind = "question", !.question = q,
                                    !.document_id = d, !.api_key = k], max_reqs)
  /\ UNCHANGED <<storeVars, keyVars, callVars>>

ReceiveQuestion(q, d, k) == ReceiveQuestionWithin(q, d, k, MaxReqs)

ReceiveSettingsWithin(k, max_reqs) ==
  /\ ArriveWithin([NoRequest EXCEPT !.kind = "settings", !.deepseek_api_key = k], max_reqs)
  /\ UNCHANGED <<storeVars, keyVars, callVars>>

ReceiveSettings(k) == ReceiveSettingsWithin(k, MaxReqs)

\* The response has been sent
Deliver(t) ==
  /\ t.pc = "done"
  /\ tasks' = tasks (-) SetToBag({t})
  /\ UNCHANGED <<storeVars, keyVars, callVars>>

\* A handler returns or raises: its arguments and locals are gone.  Until the
\* response is delivered the exchange keeps the kind of the request, the
\* credential the request supplied, the response and the POSTs issued.
Finish(t, resp) ==
  Becomes(t, [pc |-> "done",
              request |-> [NoRequest EXCEPT !.kind = t.request.kind,
                                            !.api_key = t.request.api_key],
              locals |-> NoLocals,
              response |-> resp,
              backend_calls |-> t.backend_calls])

\* A handler goes on to its next statement
Goto(t, label, loc) == Becomes(t, [t EXCEPT !.pc = label, !.locals = loc])

HttpError(code, what) == [NoResponse EXCEPT !.status = code, !.detail = what]

\* ------------------------------------------------------------------------
\* upload_document
\* ------------------------------------------------------------------------
SupportedExts == {".pdf", ".docx", ".txt", ".csv", ".md"}

\* extract_text(file_path): raises on an extension it does not know and when
\* the PDF or DOCX parser rejects the file
extract_text(file) ==
  IF file.ext \notin SupportedExts THEN [raised |-> TRUE, text |-> EmptyStr]
  ELSE IF file.corrupt /\ file.ext \in {".pdf", ".docx"}
       THEN [raised |-> TRUE, text |-> EmptyStr]
       ELSE [raised |-> FALSE, text |-> file.text]

\* d[k] = v on a dict
DictSet(d, k, v) == [x \in DOMAIN d \cup {k} |-> IF x = k THEN v ELSE d[x]]

\* Variant: an identifier that collides with one already in the store
CollidingDocumentId ==
  IF documents = <<>> THEN next_uuid ELSE CHOOSE id \in DOMAIN documents : TRUE

\* str(uuid.uuid4()): an identifier that was never handed out before
NewDocumentId == next_uuid

\* document_id = str(uuid.uuid4()); the file is written under uploads/
UploadSave(t) ==
  /\ t.pc = "pending" /\ t.request.kind = "upload"
  /\ Scheduled(t)
  /\ next_uuid' = next_uuid + 1
  /\ uploads' = uploads \cup {<<NewDocumentId, t.request.file.ext>>}
  /\ Goto(t, "u_process", [NoLocals EXCEPT !.document_id = NewDocumentId,
                                           !.file_path = <<NewDocumentId, t.request.file.ext>>])
  /\ UNCHANGED <<documents, document_embeddings, keyVars, callVars>>

\* document_text = extract_text(file_path);
\* chunks, chunk_embeddings = process_document(document_text)
UploadProcess(t) ==
  /\ t.pc = "u_process"
  /\ Scheduled(t)
  /\ LET x == extract_text(t.request.file)
         p == process_document(x.text)
     IN IF x.raised
        THEN Goto(t, "u_except", t.locals)
        ELSE Goto(t, "u_store_doc", [t.locals EXCEPT !.document_text = x.text,
                                                 !.chunks = p.chunks,
                                                 !.chunk_embeddings = p.chunk_embeddings])
  /\ UNCHANGED <<storeVars, keyVars, callVars>>

\* documents[document_id] = {...}
UploadStoreDocument(t) ==
  /\ t.pc = "u_store_doc"
  /\ Scheduled(t)
  /\ documents' = DictSet(documents, t.locals.document_id,
          [filename |-> t.request.file.ext, path |-> t.locals.file_path,
           text |-> t.locals.document_text, chunks |-> t.locals.chunks])
  /\ Goto(t, "u_store_emb", t.locals)
  /\ UNCHANGED <<document_embeddings, uploads, next_uuid, keyVars, callVars>>

\* document_embeddings[document_id] = chunk_embeddings; return
UploadStoreEmbeddings(t) ==
  /\ t.pc = "u_store_emb"
  /\ Scheduled(t)
  /\ document_embeddings' = DictSet(document_embeddings, t.locals.document_id,
                                     t.locals.chunk_embeddings)
  /\ Finish(t, [NoResponse EXCEPT !.status = 200,
                                  !.document_id = t.locals.document_id])
  /\ UNCHANGED <<documents, uploads, next_uuid, keyVars, callVars>>

\* Variant: the except clause leaves the file where it is
FileKept(files, path) == files

\* os.remove(file_path)
FileRemoved(files, path) == files \ {path}

\* except Exception: os.remove(file_path); raise HTTPException(400).  The
\* HTTPException is an Exception raised inside the outer try, whose handler
\* replaces it by HTTPException(500).
UploadExcept(t) ==
  /\ t.pc = "u_except"
  /\ Scheduled(t)
  /\ uploads' = FileRemoved(uploads, t.locals.file_path)
  /\ Finish(t, HttpError(500, "Error al subir el documento"))
  /\ UNCHANGED <<documents, document_embeddings, next_uuid, keyVars, callVars>>

\* ------------------------------------------------------------------------
\* query_deepseek
\* ------------------------------------------------------------------------
\* return answer
ContentAnswer(b) ==
  [raised |-> FALSE, kind |-> "content", status_code |-> b.status_code, text |-> b.content]

\* Variant: response.raise_for_status() turns the status into an exception,
\* which the except clause reports without the body
ApiErrorRaisedForStatus(b) ==
  [raised |-> FALSE, kind |-> "Error al procesar la pregunta", status_code |-> 0,
   text |-> "HTTPError"]

\* return f"Error al consultar la API: {response.status_code} - {response.text}"
ApiError(b) ==
  [raised |-> FALSE, kind |-> "Error al consultar la API",
   status_code |-> b.status_code, text |-> b.text]

\* Variant: `except requests.RequestException`, which lets the exceptions of
\* response.json() and of the subscripts through
CaughtRequestExceptionOnly(cause) ==
  IF cause \in {"ConnectionError", "Timeout"}
  THEN [raised |-> FALSE, kind |-> "Error al procesar la pregunta", status_code |-> 0,
        text |-> cause]
  ELSE [raised |-> TRUE, kind |-> None, status_code |-> 0, text |-> cause]

\* except Exception as e: return f"Error al procesar la pregunta: {str(e)}"
Caught(cause) ==
  [raised |-> FALSE, kind |-> "Error al procesar la pregunta", status_code |-> 0,
   text |-> cause]

\* The exception response.json() or result["choices"][0]["message"]["content"]
\* raises on a body that has no such content
MalformedCause(b) == IF b.text = "{}" THEN "KeyError" ELSE "JSONDecodeError"

\* The value query_deepseek returns when the POST was answered by b
AnswerOf(b) ==
  IF b.exc # None THEN Caught(b.exc)
  ELSE IF b.status_code = 200
       THEN IF b.content # None THEN ContentAnswer(b) ELSE Caught(MalformedCause(b))
       ELSE ApiError(b)

MissingKeyAnswer ==
  [raised |-> FALSE, kind |-> "Error: API key de Deepseek no configurada.",
   status_code |-> 0, text |-> ""]

\* `DEEPSEEK_API_KEY` as a condition
HasCredential(key) == key # NoKey /\ key # None

\* Variant: a call that fails is made a second time
PostsRetried(key, b) ==
  IF b.exc # None \/ b.status_code # 200 THEN <<key, key>> ELSE <<key>>

\* requests.post(...) is called once, outside any loop: the POSTs of one
\* call of query_deepseek, each with the credential of its Authorization
Posts(key, b) == <<key>>

\* Variant: the request is issued without looking at the credential
query_deepseek_unguarded(key, b) == [posts |-> Posts(key, b), answer |-> AnswerOf(b)]

\* query_deepseek(question, context_chunks) with the backend behaving as b:
\* the POSTs it issues (their Authorization credential) and its return value
query_deepseek(key, b) ==
  IF ~HasCredential(key)
  THEN [posts |-> <<>>, answer |-> MissingKeyAnswer]
  ELSE [posts |-> Posts(key, b), answer |-> AnswerOf(b)]

\* ------------------------------------------------------------------------
\* ask_question
\* ------------------------------------------------------------------------
QuestionData(t) ==
  ParseQuestion(QuestionBody(t.request.question, t.request.document_id,
                             t.request.api_key))

\* `if api_key:`
Truthy(k) == k # None /\ k # NoKey

\* Variant: the membership test is made on the identifiers handed out
DocumentIdIssued(id) == id \in 1..(next_uuid - 1)

\* `document_id in documents`
DocumentKnown(id) == id \in DOMAIN documents

\* api_key = getattr(...); if document_id not in documents: raise 404
QuestionLookup(t) ==
  /\ t.pc = "pending" /\ t.request.kind = "question"
  /\ Scheduled(t)
  /\ LET qd == QuestionData(t)
     IN IF ~DocumentKnown(qd.document_id)
        THEN Finish(t, HttpError(404, "Documento no encontrado"))
        ELSE Goto(t, "q_retrieve", [NoLocals EXCEPT !.document_id = qd.document_id,
                                                  !.api_key = GetApiKey(qd)])
  /\ UNCHANGED <<storeVars, keyVars, callVars>>

\* chunks = documents[id]["chunks"]; chunk_embeddings = document_embeddings[id];
\* relevant_chunks, relevance_scores = find_relevant_chunks(...);
\* original_api_key = DEEPSEEK_API_KEY; if api_key: DEEPSEEK_API_KEY = api_key
QuestionRetrieve(t) ==
  /\ t.pc = "q_retrieve"
  /\ Scheduled(t)
  /\ LET id == t.locals.document_id
     IN IF id \notin DOMAIN document_embeddings
        THEN Finish(t, HttpError(500, "KeyError")) /\ UNCHANGED DEEPSEEK_API_KEY
        ELSE \E o \in TieOrders :
             LET f == find_relevant_chunks(documents[id].chunks, document_embeddings[id],
                                           t.request.question, DefaultTopK, o)
             IN IF f.raised
                THEN Finish(t, HttpError(500, "ValueError")) /\ UNCHANGED DEEPSEEK_API_KEY
                ELSE /\ DEEPSEEK_API_KEY' = IF Truthy(t.locals.api_key)
                                            THEN t.locals.api_key
                                            ELSE DEEPSEEK_API_KEY
                     /\ Goto(t, "q_query",
                             [t.locals EXCEPT
                                !.chunks = documents[id].chunks,
                                !.chunk_embeddings = document_embeddings[id],
                                !.relevant_chunks = f.relevant_chunks,
                                !.original_api_key = DEEPSEEK_API_KEY])
  /\ UNCHANGED <<storeVars, env_key, last_settings, callVars>>

\* answer = query_deepseek(question, relevant_chunks)
QuestionQuery(t, b) ==
  /\ t.pc = "q_query"
  /\ Scheduled(t)
  /\ LET q == query_deepseek(DEEPSEEK_API_KEY, b)
     IN Becomes(t, [t EXCEPT !.pc = "q_restore",
                             !.locals = [t.locals EXCEPT !.answer = q.answer],
                             !.backend_calls = t.backend_calls \o q.posts])
  /\ UNCHANGED <<storeVars, keyVars, callVars>>

\* Variant: the finally clause writes back the start-up value
RestoredKeyFromEnv(t) == env_key

\* The value the finally clause writes back
RestoredKey(t) == t.locals.original_api_key

\* finally: DEEPSEEK_API_KEY = original_api_key; return {"answer": answer}
\* (an exception of query_deepseek would reach the except clause: 500)
QuestionRestore(t) ==
  /\ t.pc = "q_restore"
  /\ Scheduled(t)
  /\ DEEPSEEK_API_KEY' = RestoredKey(t)
  /\ IF t.locals.answer.raised
     THEN Finish(t, HttpError(500, "Error al procesar la pregunta"))
     ELSE Finish(t, [NoResponse EXCEPT !.status = 200, !.answer = t.locals.answer])
  /\ UNCHANGED <<storeVars, env_key, last_settings, callVars>>

\* ------------------------------------------------------------------------
\* save_settings
\* ------------------------------------------------------------------------
\* "deepseek_api_key" in settings and settings["deepseek_api_key"]
SettingsEffective(k) == k # None /\ k # NoKey

SaveSettings(t) ==
  /\ t.pc = "pending" /\ t.request.kind = "settings"
  /\ Scheduled(t)
  /\ LET k == t.request.deepseek_api_key
     IN IF SettingsEffective(k)
        THEN DEEPSEEK_API_KEY' = k /\ last_settings' = k
        ELSE UNCHANGED <<DEEPSEEK_API_KEY, last_settings>>
  /\ Finish(t, [NoResponse EXCEPT !.status = 200])
  /\ UNCHANGED <<storeVars, env_key, callVars>>

\* ------------------------------------------------------------------------
\* The service
\* ------------------------------------------------------------------------
Next ==
  \/ \E f \in UploadedFiles : ReceiveUpload(f)
  \/ \E q \in QuestionTexts, d \in DocIds, k \in RequestKeys : ReceiveQuestion(q, d, k)
  \/ \E k \in SettingsKeys : ReceiveSettings(k)
  \/ \E t \in Tasks : Deliver(t)
  \/ \E t \in Tasks : UploadSave(t)
  \/ \E t \in Tasks : UploadProcess(t)
  \/ \E t \in Tasks : UploadStoreDocument(t)
  \/ \E t \in Tasks : UploadStoreEmbeddings(t)
  \/ \E t \in Tasks : UploadExcept(t)
  \/ \E t \in Tasks : QuestionLookup(t)
  \/ \E t \in Tasks : QuestionRetrieve(t)
  \/ \E t \in Tasks, b \in BackendBehaviours : QuestionQuery(t, b)
  \/ \E t \in Tasks : QuestionRestore(t)
  \/ \E t \in Tasks : SaveSettings(t)

Spec == Init /\ [][Next]_vars

\* ------------------------------------------------------------------------
\* The service with a backend that may stay silent
\* ------------------------------------------------------------------------
\* The backend accepts the request and never sends a response
SilentBackend == [exc |-> None, status_code |-> 0, text |-> "", content |-> None]

\* requests.post(DEEPSEEK_API_URL, headers=headers, data=json.dumps(data)) is
\* called without a timeout: on a silent backend the call does not return,
\* and the handler, which runs on the event loop, stays inside it.
QuestionQueryBlocks(t) ==
  /\ t.pc = "q_query"
  /\ Scheduled(t)
  /\ HasCredential(DEEPSEEK_API_KEY)
  /\ Becomes(t, [t EXCEPT !.pc = "q_blocked",
                          !.backend_calls =
                            t.backend_calls \o Posts(DEEPSEEK_API_KEY, SilentBackend)])
  /\ UNCHANGED <<storeVars, keyVars, callVars>>

\* The handler of t, having retrieved the chunks, executes its next statement
QueryStep(t) ==
  \/ \E b \in BackendBehaviours : QuestionQuery(t, b)
  \/ QuestionRestore(t)

LiveNext ==
  \/ Next
  \/ \E t \in Tasks : QuestionQueryBlocks(t)

\* A handler that can execute its next statement does so (stated for the
\* statements from the backend call on), and responses are delivered.
Fairness ==
  /\ WF_vars(\E t \in Tasks : QueryStep(t))
  /\ WF_vars(\E t \in Tasks : Deliver(t))

LiveSpec == Init /\ [][LiveNext]_vars /\ Fairness

\* ------------------------------------------------------------------------
\* The service with its requests sent one by one
\* ------------------------------------------------------------------------
SeqDocIds == 1..MaxSeqUploads

SeqNext ==
  \/ \E f \in UploadedFiles : ReceiveUploadWithin(f, MaxSeqReqs, MaxSeqUploads)
  \/ \E q \in QuestionTexts, d \in SeqDocIds, k \in RequestKeys :
       ReceiveQuestionWithin(q, d, k, MaxSeqReqs)
  \/ \E k \in SettingsKeys : ReceiveSettingsWithin(k, MaxSeqReqs)
  \/ \E t \in Tasks : Deliver(t)
  \/ \E t \in Tasks : UploadSave(t)
  \/ \E t \in Tasks : UploadProcess(t)
  \/ \E t \in Tasks : UploadStoreDocument(t)
  \/ \E t \in Tasks : UploadStoreEmbeddings(t)
  \/ \E t \in Tasks : UploadExcept(t)
  \/ \E t \in Tasks : QuestionLookup(t)
  \/ \E t \in Tasks : QuestionRetrieve(t)
  \/ \E t \in Tasks, b \in BackendBehaviours : QuestionQuery(t, b)
  \/ \E t \in Tasks : QuestionRestore(t)
  \/ \E t \in Tasks : SaveSettings(t)

SeqSpec == Init /\ [][SeqNext]_vars

\* ------------------------------------------------------------------------
\* find_relevant_chunks called directly on arbitrary vectors
\* ------------------------------------------------------------------------
Vectors == {<<0, 0>>, <<1, 0>>, <<0, 1>>, <<1, 1>>, <<-1, 0>>}

\* chunk i of a direct call: text number i
ChunkNo(i) == R("a", MinParagraphLen + i)

RetrieveInit ==
  /\ ServiceInit
  /\ env_key = NoKey
  /\ DEEPSEEK_API_KEY = env_key
  /\ \E n \in 0..MaxVecs :
       \E e \in [1..n -> Vectors], q \in Vectors, k \in 0..MaxTopK, o \in TieOrders :
         fr_in = [chunks |-> [i \in 1..n |-> ChunkNo(i)], chunk_embeddings |-> e,
                  question_embedding |-> q, top_k |-> k, ties |-> o]
  /\ fr_out = <<>>
  /\ ch_in = EmptyStr
  /\ ch_out = <<>>
  /\ qd_in = NoQuery
  /\ qd_out = <<>>

\* One call of find_relevant_chunks on the arguments; it is called twice
CallRetrieve ==
  /\ Len(fr_out) < 2
  /\ fr_out' = Append(fr_out,
                      RelevantChunks(fr_in.chunks, fr_in.chunk_embeddings,
                                     fr_in.question_embedding, fr_in.top_k,
                                     fr_in.ties))
  /\ UNCHANGED <<storeVars, keyVars, tasks, fr_in, ch_in, ch_out, qd_in, qd_out>>

RetrieveNext == CallRetrieve

RetrieveSpec == RetrieveInit /\ [][RetrieveNext]_vars

\* ------------------------------------------------------------------------
\* process_document called directly on arbitrary texts
\* ------------------------------------------------------------------------
\* The lines a text is made of: empty, blank, below and at the threshold of
\* five characters once stripped, padded with blanks, and of lengths around
\* half of and the whole of the maximal chunk length
Lines ==
  { EmptyStr,
    R(" ", 2),
    Cat(Cat(R(" ", 1), R("c", 4)), R(" ", 1)),
    R("c", 5),
    Cat(Cat(R(" ", 1), R("a", 5)), R(" ", 2)),
    R("a", 250), R("b", 250), R("c", 251),
    R("d", 500), R("e", 501) }

RECURSIVE JoinFrom(_, _, _)
JoinFrom(strs, sep, i) ==
  IF i > Len(strs) THEN EmptyStr
  ELSE IF i = Len(strs) THEN strs[i]
  ELSE Cat(Cat(strs[i], sep), JoinFrom(strs, sep, i + 1))

\* sep.join(strs)
Join(strs, sep) == JoinFrom(strs, sep, 1)

ChunkInit ==
  /\ ServiceInit
  /\ env_key = NoKey
  /\ DEEPSEEK_API_KEY = env_key
  /\ fr_in = NoCall
  /\ fr_out = <<>>
  /\ \E n \in 0..MaxLines : \E ls \in [1..n -> Lines] : ch_in = Join(ls, Newline)
  /\ ch_out = <<>>
  /\ qd_in = NoQuery
  /\ qd_out = <<>>

\* One call of process_document on the text
CallProcess ==
  /\ ch_out = <<>>
  /\ ch_out' = <<process_document(ch_in)>>
  /\ UNCHANGED <<storeVars, keyVars, tasks, fr_in, fr_out, ch_in, qd_in, qd_out>>

ChunkNext == CallProcess

ChunkSpec == ChunkInit /\ [][ChunkNext]_vars

\* ------------------------------------------------------------------------
\* query_deepseek called directly on arbitrary backends
\* ------------------------------------------------------------------------
Credentials == {NoKey, "A", "B", "C"}

\* Status codes other than 200 and response bodies
ErrorStatuses == {201, 400, 401, 429, 500, 503}
Bodies == {"", "server error", "{}"}

\* What requests.post does: it raises, or it returns a response with a
\* status code and a body, which at status 200 holds the content or does not
Backends ==
  BackendBehaviours
  \cup { [exc |-> e, status_code |-> 0, text |-> "", content |-> None] :
           e \in {"ConnectionError", "Timeout"} }
  \cup { [exc |-> None, status_code |-> c, text |-> x, content |-> None] :
           c \in ErrorStatuses, x \in Bodies }
  \cup { [exc |-> None, status_code |-> 200, text |-> x, content |-> None] :
           x \in {"{}", "not json"} }

QueryInit ==
  /\ ServiceInit
  /\ env_key = NoKey
  /\ DEEPSEEK_API_KEY = env_key
  /\ fr_in = NoCall
  /\ fr_out = <<>>
  /\ ch_in = EmptyStr
  /\ ch_out = <<>>
  /\ \E k \in Credentials, b \in Backends : qd_in = [key |-> k, backend |-> b]
  /\ qd_out = <<>>

\* One call of query_deepseek with DEEPSEEK_API_KEY = qd_in.key
CallQuery ==
  /\ qd_out = <<>>
  /\ qd_out' = <<query_deepseek(qd_in.key, qd_in.backend)>>
  /\ UNCHANGED <<storeVars, keyVars, tasks, fr_in, fr_out, ch_in, ch_out, qd_in>>

QueryNext == CallQuery

QuerySpec == QueryInit /\ [][QueryNext]_vars

\* ------------------------------------------------------------------------
\* Properties of the credential handling
\* ------------------------------------------------------------------------
\* The default credential as configured: by the last effective settings
\* request, or else by the environment
ConfiguredKey == IF last_settings # None THEN last_settings ELSE env_key

QuestionPcs == {"q_retrieve", "q_query", "q_blocked", "q_restore"}

\* C1 - Credential isolation: of two question requests in flight together,
\* one supplying a credential and one supplying none while a default is
\* configured, the one that has queried the backend sent its own credential,
\* respectively the default.  (Fails in the program: see C4.)
C1_CredentialIsolation ==
  \A t1, t2 \in Tasks :
    ( /\ t1.request.kind = "question" /\ t2.request.kind = "question"
      /\ t1.request.api_key \notin {None, NoKey}
      /\ t2.request.api_key \in {None, NoKey}
      /\ ConfiguredKey # NoKey )
    => /\ t1.pc = "q_restore" => t1.backend_calls = <<t1.request.api_key>>
       /\ t2.pc = "q_restore" => t2.backend_calls = <<ConfiguredKey>>

\* C2 - The per-request credential never leaks into the default: whenever no
\* question handler is in the middle of its run, the process-wide default is
\* the configured one.
C2_DefaultKeyNeverReplaced ==
  (\A t \in Tasks : t.pc \notin QuestionPcs) => DEEPSEEK_API_KEY = ConfiguredKey

\* Two questions, one with and one without a credential of its own, have been
\* answered, and a default is configured.
C2_Witness ==
  /\ DEEPSEEK_API_KEY # NoKey
  /\ \E t1, t2 \in Tasks :
       /\ t1.pc = "done" /\ t1.request.kind = "question"
       /\ t1.request.api_key = "A" /\ t1.response.status = 200
       /\ t2.pc = "done" /\ t2.request.kind = "question"
       /\ t2.request.api_key = None /\ t2.response.status = 200

\* C3 - After a settings request with a non-empty credential has completed,
\* a question request without a credential of its own that has queried the
\* backend sent the credential of the last such settings request.
C3_SettingsCredentialUsed ==
  \A t \in Tasks :
    ( /\ t.pc = "q_restore"
      /\ t.request.api_key \in {None, NoKey}
      /\ last_settings # None )
    => t.backend_calls = <<last_settings>>

\* A question without a credential has sent the credential saved by a
\* settings request that replaced the one of the environment, while a
\* question with a credential of its own is in flight.
C3_Witness ==
  /\ env_key = "B" /\ last_settings = "C"
  /\ \E t, u \in Tasks :
       /\ t.pc = "q_restore" /\ t.request.api_key = None
       /\ t.backend_calls = <<"C">>
       /\ u.request.kind = "question" /\ u.request.api_key = "A"

\* C4 - A question request that supplies a credential sends its backend
\* request with that credential.  (Fails in the program: Question declares no
\* api_key field, so the credential of the body never reaches the handler.)
C4_RequestCredentialSent ==
  \A t \in Tasks :
    (t.pc = "q_restore" /\ t.request.api_key \notin {None, NoKey})
    => t.backend_calls = <<t.request.api_key>>

\* C5 - Missing-credential short-circuit: with no default configured and no
\* credential supplied, query_deepseek returns the missing-credential error
\* and the question has issued no backend request.
C5_MissingCredentialShortCircuit ==
  \A t \in Tasks :
    /\ ( /\ t.pc = "q_restore"
         /\ t.request.api_key \in {None, NoKey}
         /\ ConfiguredKey = NoKey )
       => t.locals.answer = MissingKeyAnswer /\ t.backend_calls = <<>>
    /\ t.response.answer = MissingKeyAnswer => t.backend_calls = <<>>

\* A question without a credential has been answered with the
\* missing-credential error.
C5_Witness ==
  \E t \in Tasks :
    /\ t.pc = "done" /\ t.request.kind = "question" /\ t.request.api_key = None
    /\ t.response.answer = MissingKeyAnswer
    /\ t.backend_calls = <<>>
    /\ DEEPSEEK_API_KEY = NoKey

\* ------------------------------------------------------------------------
\* Properties of the document store
\* ------------------------------------------------------------------------
\* C6 - No partial document is observed: a question handler that found its
\* document identifier in documents finds it in document_embeddings as well,
\* and no question fails on a missing entry.
C6_NoPartialDocumentObserved ==
  \A t \in Tasks :
    /\ t.pc = "q_retrieve" =>
         /\ t.locals.document_id \in DOMAIN documents
         /\ t.locals.document_id \in DOMAIN document_embeddings
    /\ t.response.detail # "KeyError"

\* An upload has stored its document and not yet its vectors while a question
\* about that document is waiting to be handled.
C6_Witness ==
  \E t, u \in Tasks :
    /\ u.pc = "u_store_emb"
    /\ u.locals.document_id \in DOMAIN documents
    /\ u.locals.document_id \notin DOMAIN document_embeddings
    /\ t.request.kind = "question" /\ t.pc = "pending"
    /\ t.request.document_id = u.locals.document_id

\* C7 - Vector alignment: every ingested document has as many chunk vectors
\* as chunks.
C7_VectorAlignment ==
  \A id \in DOMAIN document_embeddings :
    /\ id \in DOMAIN documents
    /\ Len(document_embeddings[id]) = Len(documents[id].chunks)

\* A document of several chunks has been ingested.
C7_Witness ==
  \E id \in DOMAIN document_embeddings :
    id \in DOMAIN documents /\ Len(documents[id].chunks) >= 2

\* C8 - Every stored document has at least one chunk.  (Fails in the
\* program: a text without a qualifying line is stored with no chunks.)
C8_StoredDocumentsHaveChunks ==
  \A id \in DOMAIN documents : Len(documents[id].chunks) >= 1

\* ------------------------------------------------------------------------
\* Properties of find_relevant_chunks (RetrieveSpec)
\* ------------------------------------------------------------------------
\* C9 - Tie-break: of two returned chunks of equal similarity the one of
\* lower index comes first, and two calls on the same arguments return the
\* same result.  (Fails in the program: the ascending order of np.argsort is
\* reversed, which puts the higher index first under a stable sort.)
C9_TieBreakLowerIndexFirst ==
  /\ \A c \in 1..Len(fr_out) :
       LET out == fr_out[c]
       IN \A i, j \in 1..Len(out.top_indices) :
            ( /\ i < j
              /\ ~out.relevance_scores[i].nan /\ ~out.relevance_scores[j].nan
              /\ SimTie(out.relevance_scores[i], out.relevance_scores[j]) )
            => out.top_indices[i] < out.top_indices[j]
  /\ Len(fr_out) = 2 => fr_out[1] = fr_out[2]

Min(a, b) == IF a <= b THEN a ELSE b

\* C10 - Retrieval bound: at most min(top_k, number of chunks) results are
\* returned, top_k = 0 included.  (Fails in the program: a[-0:] is all of a.)
C10_RetrievalBound ==
  \A c \in 1..Len(fr_out) :
    Len(fr_out[c].relevant_chunks) <= Min(fr_in.top_k, Len(fr_in.chunks))

\* The similarities of a direct call are defined: the array was computed and
\* none of its entries is nan
AllSimilaritiesDefined ==
  /\ fr_in.chunk_embeddings # <<>>
  /\ \A i \in 1..Len(fr_in.chunk_embeddings) :
       ~Similarity(fr_in.chunk_embeddings[i], fr_in.question_embedding).nan

C12_ZeroNormScoresLowest ==
  \A c \in 1..Len(fr_out) :
    (fr_in.top_k >= 1 /\ fr_in.chunk_embeddings # <<>>) =>
      LET out == fr_out[c]
          n == Len(fr_in.chunk_embeddings)
          defined == {i \in 1..n :
                        ~Similarity(fr_in.chunk_embeddings[i],
                                    fr_in.question_embedding).nan}
      IN /\ ~out.raised
         /\ \A i, j \in 1..Len(out.relevance_scores) :
              (i < j /\ out.relevance_scores[i].nan) => out.relevance_scores[j].nan
         /\ Cardinality(defined) >= fr_in.top_k =>
              \A i \in 1..Len(out.relevance_scores) : ~out.relevance_scores[i].nan

\* ------------------------------------------------------------------------
\* Properties of process_document (ChunkSpec)
\* ------------------------------------------------------------------------
\* A line of the input that the chunker has to keep
Qualifies(line) == StrLen(Strip(line)) >= MinParagraphLen

\* The lines of the text given to process_document that qualify, in order
QualifyingLines == SelectSeq(SplitLines(ch_in), Qualifies)

\* C13 - Chunk threshold: every chunk emitted has a stripped length of at
\* least five characters; no chunk is empty.
C13_ChunkThreshold ==
  \A c \in 1..Len(ch_out) :
    \A i \in 1..Len(ch_out[c].chunks) :
      /\ ch_out[c].chunks[i] # EmptyStr
      /\ StrLen(Strip(ch_out[c].chunks[i])) >= MinParagraphLen

\* A text with a line of six characters, four once stripped, next to
\* qualifying lines has been chunked into several chunks.
C13_Witness ==
  /\ Len(ch_out) = 1
  /\ Len(ch_out[1].chunks) >= 2
  /\ \E i \in 1..Len(SplitLines(ch_in)) :
       /\ StrLen(SplitLines(ch_in)[i]) >= MinParagraphLen
       /\ ~Qualifies(SplitLines(ch_in)[i])

RECURSIVE WordsFrom(_, _, _)
WordsFrom(s, cur, out) ==
  IF s = <<>> THEN (IF cur = EmptyStr THEN out ELSE Append(out, cur))
  ELSE IF s[1].c \in Whitespace
       THEN WordsFrom(Tail(s), EmptyStr, IF cur = EmptyStr THEN out ELSE Append(out, cur))
       ELSE WordsFrom(Tail(s), Cat(cur, <<s[1]>>), out)

\* The maximal runs of s without whitespace, in order: s up to whitespace
Words(s) == WordsFrom(s, EmptyStr, <<>>)

\* C14 - Chunk reconstruction: the emitted chunks joined in order are, up to
\* whitespace, the qualifying lines of the text in their order, each once;
\* and when the qualifying lines joined by single spaces fit within the
\* maximal chunk length, that join (stripped) is the only chunk.
C14_ChunkReconstruction ==
  \A c \in 1..Len(ch_out) :
    LET chunks == ch_out[c].chunks
    IN /\ Words(Join(chunks, R(" ", 1))) = Words(Join(QualifyingLines, R(" ", 1)))
       /\ Len(Words(Join(chunks, R(" ", 1)))) = Len(QualifyingLines)
       /\ ( /\ QualifyingLines # <<>>
            /\ StrLen(Join(QualifyingLines, R(" ", 1))) <= MaxChunkLen )
          => chunks = <<Strip(Join(QualifyingLines, R(" ", 1)))>>

\* A text of three qualifying lines that do not fit one chunk has been
\* chunked into two chunks.
C14_Witness ==
  /\ Len(ch_out) = 1
  /\ Len(QualifyingLines) = 3
  /\ Len(SplitLines(ch_in)) = 3
  /\ Len(ch_out[1].chunks) = 2

\* ------------------------------------------------------------------------
\* Properties of query_deepseek (QuerySpec)
\* ------------------------------------------------------------------------
\* C15 - Backend failure is a value: when a request was issued and answered
\* with a non-success status, query_deepseek returns (does not raise) the
\* backend error carrying that status code and the raw body.
C15_BackendErrorIsValue ==
  \A c \in 1..Len(qd_out) :
    ( /\ qd_out[c].posts # <<>>
      /\ qd_in.backend.exc = None
      /\ qd_in.backend.status_code \notin 200..299 )
    => /\ ~qd_out[c].answer.raised
       /\ qd_out[c].answer.kind = "Error al consultar la API"
       /\ qd_out[c].answer.status_code = qd_in.backend.status_code
       /\ qd_out[c].answer.text = qd_in.backend.text

\* The backend answered 500 "server error" and query_deepseek has returned.
C15_Witness ==
  /\ Len(qd_out) = 1
  /\ qd_out[1].posts = <<"A">>
  /\ qd_in.backend.exc = None
  /\ qd_in.backend.status_code = 500 /\ qd_in.backend.text = "server error"
  /\ qd_out[1].answer.status_code = 500

\* C16 - Transport failure is a value: when a request was issued and
\* requests.post raised, or the response has status 200 and a body without
\* choices[0].message.content, query_deepseek returns (does not raise) the
\* processing error carrying the description of the cause.
C16_TransportErrorIsValue ==
  \A c \in 1..Len(qd_out) :
    LET b == qd_in.backend
    IN /\ (qd_out[c].posts # <<>> /\ b.exc # None)
          => /\ ~qd_out[c].answer.raised
             /\ qd_out[c].answer.kind = "Error al procesar la pregunta"
             /\ qd_out[c].answer.text = b.exc
       /\ (qd_out[c].posts # <<>> /\ b.exc = None /\ b.status_code = 200 /\ b.content = None)
          => /\ ~qd_out[c].answer.raised
             /\ qd_out[c].answer.kind = "Error al procesar la pregunta"
             /\ qd_out[c].answer.text \in {"KeyError", "JSONDecodeError"}

\* The backend answered 200 with a body that is not JSON and query_deepseek
\* has returned.
C16_Witness ==
  /\ Len(qd_out) = 1
  /\ qd_out[1].posts # <<>>
  /\ qd_in.backend.exc = None /\ qd_in.backend.status_code = 200
  /\ qd_in.backend.content = None /\ qd_in.backend.text = "not json"
  /\ qd_out[1].answer.text = "JSONDecodeError"

\* ------------------------------------------------------------------------
\* Properties of the responses
\* ------------------------------------------------------------------------
\* The values query_deepseek returns for a failed backend call
SynthesisErrorKinds == {"Error al consultar la API", "Error al procesar la pregunta"}

\* C17 - A question whose backend call failed is answered with status 500:
\* no response of status 200 carries the error text as its answer.  (Fails in
\* the program: query_deepseek returns the error text as the answer and
\* ask_question returns it with status 200.)
C17_SynthesisFailureIs500 ==
  \A t \in Tasks :
    (t.pc = "done" /\ t.request.kind = "question" /\ t.backend_calls # <<>>)
    => /\ t.response.status = 200 => t.response.answer.kind \notin SynthesisErrorKinds
       /\ t.response.status \in {200, 500}

\* C18 - An upload whose extraction or processing failed is answered with
\* status 400.  (Fails in the program: the HTTPException(400) is raised
\* inside the outer try and replaced by HTTPException(500).)
C18_IngestionFailureIs400 ==
  \A t \in Tasks :
    (t.pc = "done" /\ t.request.kind = "upload" /\ t.response.status # 200)
    => t.response.status = 400

\* C19 - When the handler of an upload leaves its except clause, the store
\* holds neither chunks nor vectors under the identifier of the request and
\* the file written for it is gone.
C19_FailedUploadLeavesNothing ==
  [][\A t \in Tasks :
       (t.pc = "u_except" /\ CopiesIn(t, tasks') < CopiesIn(t, tasks))
       => /\ t.locals.document_id \notin DOMAIN documents'
          /\ t.locals.document_id \notin DOMAIN document_embeddings'
          /\ t.locals.file_path \notin uploads']_vars

\* An upload has failed: its response is an error, an identifier was handed
\* out, nothing is stored and no file is left.
C19_Witness ==
  /\ \E t \in Tasks :
       t.pc = "done" /\ t.request.kind = "upload" /\ t.response.status # 200
  /\ next_uuid = 2
  /\ documents = <<>> /\ document_embeddings = <<>>
  /\ uploads = {}

\* C20 - Unknown document: when the handler of a question whose identifier
\* is not in documents runs, it ends at once with status 404, without reaching
\* the retrieval (where the question is embedded), without a backend request,
\* and with the store and the default credential as they were.
C20_UnknownDocumentIs404 ==
  [][\A t \in Tasks :
       ( /\ t.pc = "pending" /\ t.request.kind = "question"
         /\ t.request.document_id \notin DOMAIN documents
         /\ CopiesIn(t, tasks') < CopiesIn(t, tasks) )
       => /\ \E u \in BagToSet(tasks') :
               /\ CopiesIn(u, tasks') > CopiesIn(u, tasks)
               /\ u.pc = "done" /\ u.request.kind = "question"
               /\ u.response.status = 404
               /\ u.backend_calls = <<>>
          /\ documents' = documents
          /\ document_embeddings' = document_embeddings
          /\ uploads' = uploads
          /\ DEEPSEEK_API_KEY' = DEEPSEEK_API_KEY]_vars

\* A question about an identifier that is not stored has been answered 404
\* while a credential is configured and an upload is being handled.
C20_Witness ==
  /\ DEEPSEEK_API_KEY # NoKey
  /\ \E t, u \in Tasks :
       /\ t.pc = "done" /\ t.request.kind = "question"
       /\ t.response.status = 404 /\ t.backend_calls = <<>>
       /\ u.request.kind = "upload" /\ u.pc = "pending"

\* C24 - Chunk size bound: a chunk longer than the maximal chunk length
\* consists of exactly one line of the text; a chunk made of two or more
\* lines, separators included, is not longer than the maximum.  (Fails in the
\* program: the test adds the two lengths without the separating blank.)
C24_ChunkSizeBound ==
  \A c \in 1..Len(ch_out) :
    \A i \in 1..Len(ch_out[c].chunks) :
      StrLen(ch_out[c].chunks[i]) > MaxChunkLen
        => Len(Words(ch_out[c].chunks[i])) = 1

\* The qualifying lines in front of chunk i, each chunk holding as many lines
\* as it has words
RECURSIVE LinesBefore(_, _)
LinesBefore(chunks, i) ==
  IF i <= 1 THEN 0 ELSE LinesBefore(chunks, i - 1) + Len(Words(chunks[i - 1]))

\* The buffer made of qualifying lines from..to, before it is stripped
BufferOf(from, to) == Join(SubSeq(QualifyingLines, from, to), R(" ", 1))

\* C25 - The boundary comparison is strict: a line was appended to the
\* buffer whenever the length of the buffer plus the length of the line was
\* at most the maximum, the maximum itself included, and a new chunk was
\* started only when that sum was strictly greater than the maximum.
C25_StrictBoundary ==
  \A c \in 1..Len(ch_out) :
    LET chunks == ch_out[c].chunks
        first(i) == LinesBefore(chunks, i) + 1
        last(i) == LinesBefore(chunks, i) + Len(Words(chunks[i]))
    IN \A i \in 1..Len(chunks) :
         /\ \A k \in (first(i) + 1)..last(i) :
              StrLen(BufferOf(first(i), k - 1)) + StrLen(QualifyingLines[k])
                <= MaxChunkLen
         /\ i < Len(chunks) =>
              StrLen(BufferOf(first(i), last(i))) + StrLen(QualifyingLines[last(i) + 1])
                > MaxChunkLen

\* Two lines of 250 characters, whose lengths add up to exactly the maximum,
\* have been put into one chunk.
C25_Witness ==
  /\ Len(ch_out) = 1
  /\ Len(QualifyingLines) = 2
  /\ StrLen(QualifyingLines[1]) + StrLen(QualifyingLines[2]) = MaxChunkLen
  /\ Len(ch_out[1].chunks) = 1
  /\ Len(Words(ch_out[1].chunks[1])) = 2

\* ------------------------------------------------------------------------
\* Properties of the store over time (SeqSpec)
\* ------------------------------------------------------------------------
\* C21 - Stored documents are immutable: no step changes or removes the
\* chunks or the vectors stored under an identifier, and an entry that a step
\* adds is stored under an identifier that had no entry.
C21_StoredDocumentsImmutable ==
  [][/\ \A id \in DOMAIN documents :
          id \in DOMAIN documents' /\ documents'[id] = documents[id]
     /\ \A id \in DOMAIN document_embeddings :
          /\ id \in DOMAIN document_embeddings'
          /\ document_embeddings'[id] = document_embeddings[id]
     /\ \A id \in DOMAIN documents' \ DOMAIN documents :
          id \notin DOMAIN document_embeddings]_vars

\* A second upload has been stored next to the first one; its response is
\* not yet delivered.
C21_Witness ==
  /\ Cardinality(DOMAIN documents) = 2
  /\ Cardinality(DOMAIN document_embeddings) = 2
  /\ \E t \in Tasks : t.pc = "done" /\ t.request.kind = "upload" /\ t.response.status = 200

\* ------------------------------------------------------------------------
\* Properties of the backend calls of a question
\* ------------------------------------------------------------------------
\* C23 - Single attempt: a question request has issued at most one request
\* to the backend, at every point of its handling and whatever the outcome.
C23_SingleAttempt ==
  \A t \in Tasks : Len(t.backend_calls) <= 1

\* A question whose backend call failed has been answered after exactly one
\* request to the backend.
C23_Witness ==
  \E t \in Tasks :
    /\ t.pc = "done" /\ t.request.kind = "question"
    /\ t.response.answer.kind \in SynthesisErrorKinds
    /\ Len(t.backend_calls) = 1

\* C22 - Every question completes: a question handler that is about to call
\* the backend, or is inside the call, eventually is past the call, also when
\* the backend stays silent.  (Fails in the program: requests.post is called
\* without a timeout.)
C22_QuestionCompletes ==
  (\E t \in Tasks : t.pc = "q_query")
    ~> (\A t \in Tasks : t.pc \notin {"q_query", "q_blocked"})

====
